---- MODULE Spec2Model ----
(***************************************************************************)
(* EdgeFleet prototype: route optimisation and camera-feed pipeline.       *)
(*                                                                         *)
(*   SpecRoute  ml/route_optimization/optimizer.py  RouteOptimizer         *)
(*   SpecCvrp   backend/ml/route_optimizer.py       RouteOptimizer (CVRP)  *)
(*   SpecCost   backend/ai_agents/route_optimization_agent.py  cost model  *)
(*   SpecFeed   backend/services/camera_feed_manager.py  CameraFeedManager *)
(*              and the camera registry of RouteOptimizationAgent;         *)
(*              SpecFeedWorkersFair and SpecFeedFair add fair threads      *)
(*   SpecCluster, SpecSplit  RouteOptimizer._cluster_stops, as a function  *)
(*              and step by step                                           *)
(*   SpecApi    backend/api/route_optimizer.py  POST /optimize-routes      *)
(*   SpecPredict  RouteOptimizationAgent.predict                           *)
(*   SpecWs     backend/api/websocket_manager.py  ConnectionManager        *)
(*                                                                         *)
(* Every specification starts from a set of initial states that enumerates *)
(* the inputs of the operation and applies the operation as one action.    *)
(***************************************************************************)
EXTENDS Integers, Sequences, FiniteSets, TLC

VARIABLES
    routeReq,     \* arguments of RouteOptimizer.optimize_routes
    routeRes,     \* what optimize_routes returned or raised
    routePc,      \* "call" before optimize_routes runs, "done" after
    cvrpReq,      \* request_data of the OR-Tools RouteOptimizer.optimize_routes
    cvrpRes,      \* the dictionary it returned
    cvrpPc,       \* "call" before it runs, "done" after
    costIn,       \* the call made on the agent's cost model and its arguments
    costOut,      \* the factors it returned
    costPc,       \* "call" before it runs, "done" after
    camera_queues,   \* CameraFeedManager.camera_queues: camera id -> queued frames
    queued,          \* the camera ids that are keys of camera_queues
    camera_threads,  \* CameraFeedManager.camera_threads: camera id -> capture thread
    callbacks,       \* the camera ids that are keys of CameraFeedManager.callbacks
    stop_event,      \* CameraFeedManager.stop_event
    capture,         \* the capture threads started so far, by number
    started,         \* how many capture threads were started
    worker,          \* the worker threads of the pool
    active_cameras,  \* RouteOptimizationAgent.active_cameras
    camera_data,     \* RouteOptimizationAgent.camera_data
    tracker,         \* RouteOptimizationAgent.tracker is not None
    reply,           \* what the last add_camera_feed or remove_camera_feed call answered
    partReq,      \* arguments of RouteOptimizer._cluster_stops, as optimize_routes passes them
    partRes,      \* the clusters it returned and their pairing with the vehicles
    partPc,       \* "call" before it runs, "done" after
    apiReq,       \* body of a POST /optimize-routes request
    apiRes,       \* the HTTP response of the handler
    apiPc,        \* "call" before the handler runs, "done" after
    split,        \* RouteOptimizer._cluster_stops step by step: arguments, locals, position
    predictReq,   \* data of RouteOptimizationAgent.predict
    predictRes,   \* the dictionary it returned
    predictPc,    \* "call" before it runs, "done" after
    active_connections,  \* ConnectionManager.active_connections: the client ids that are keys
    subscriptions,       \* ConnectionManager.subscriptions: topic -> connection ids
    connection_topics,   \* ConnectionManager.connection_topics: connection id -> topics
    endpoint             \* websocket_endpoint per client id: "closed", or "open" in its receive loop

routeVars == <<routeReq, routeRes, routePc>>
cvrpVars == <<cvrpReq, cvrpRes, cvrpPc>>
costVars == <<costIn, costOut, costPc>>
managerVars == <<camera_queues, queued, camera_threads, callbacks, stop_event>>
threadVars == <<capture, started, worker>>
agentVars == <<active_cameras, camera_data, tracker, reply>>
feedVars == <<managerVars, threadVars, agentVars>>

partVars == <<partReq, partRes, partPc>>
apiVars == <<apiReq, apiRes, apiPc>>

splitVars == <<split>>
predictVars == <<predictReq, predictRes, predictPc>>
wsVars == <<active_connections, subscriptions, connection_topics, endpoint>>

vars == <<routeVars, cvrpVars, costVars, feedVars, partVars, apiVars,
          splitVars, predictVars, wsVars>>

(***************************************************************************)
(* Bounds of the model.                                                    *)
(***************************************************************************)
MaxStops == 9          \* longest stop list of a request
MaxVehicles == 2       \* largest fleet of a request
MaxPerCluster == 9     \* largest max_stops_per_vehicle of a request
MaxCvrpStops == 3      \* longest stop list of a CVRP request
MaxCvrpVehicles == 2   \* largest fleet of a CVRP request
MaxCapacity == 2       \* largest capacity_kg of a vehicle (in load units)
MaxDemand == 2         \* largest demand_kg of a stop (in load units)
MaxIncidents == 2      \* longest incident list of the traffic conditions
QueueSize == 2         \* max_queue_size the manager is built with
NumWorkers == 2        \* max_workers the manager is built with
MaxCaptures == 2       \* capture threads started in a run
MaxPartStops == 15     \* longest stop list handed to the partitioner
MaxPartVehicles == 2   \* largest fleet handed to the partitioner
MaxPartPerCluster == 7 \* largest max_stops_per_vehicle handed to the partitioner
MaxApiStops == 2       \* longest stop list of a POST /optimize-routes request

MaxSplitStops == 3
MaxSplitVehicles == 2
MaxSplitPerCluster == 2
MaxPosition == 3
MaxWaypoints == 2

(***************************************************************************)
(* Geography.  Locations are the depot and two delivery points of the      *)
(* example in optimizer.py (lines 246-251); a point of a route is a        *)
(* location tagged with the input index of the stop it came from (0 for    *)
(* the depot), so that a stop can be followed through the computation.     *)
(***************************************************************************)
DepotLoc == 0
StopLocs == {1, 2}

\* _calculate_distance: great-circle distance, here in whole metres between
\* (12.9698,77.7500), (12.9716,77.5946) and (12.9352,77.6245).
DistTable ==
    <<  <<0, 16839, 14133>>,
        <<16839, 0, 5184>>,
        <<14133, 5184, 0>>  >>

_calculate_distance(p1, p2) == DistTable[p1.loc + 1][p2.loc + 1]

Depot == [id |-> 0, loc |-> DepotLoc]

Min2(a, b) == IF a <= b THEN a ELSE b

\* The sequence s without its first n elements (Python s[n:]).
Drop(s, n) == IF n >= Len(s) THEN <<>> ELSE SubSeq(s, n + 1, Len(s))

\* The first n elements of s (Python s[:n]).
Take(s, n) == IF n >= Len(s) THEN s ELSE SubSeq(s, 1, n)

RECURSIVE Concat(_)
Concat(ss) == IF ss = <<>> THEN <<>> ELSE Head(ss) \o Concat(Tail(ss))

(***************************************************************************)
(* RouteOptimizer._cluster_stops                                           *)
(***************************************************************************)
\* Lines 109-111: clusters[i % num_clusters].append(stop), i from 0.
RECURSIVE RoundRobinOf(_, _, _, _)
RoundRobinOf(stops, i, k, num_clusters) ==
    IF i > Len(stops) THEN <<>>
    ELSE IF (i - 1) % num_clusters = k
         THEN <<stops[i]>> \o RoundRobinOf(stops, i + 1, k, num_clusters)
         ELSE RoundRobinOf(stops, i + 1, k, num_clusters)

RoundRobin(stops, num_clusters) ==
    [k \in 1..num_clusters |-> RoundRobinOf(stops, 1, k - 1, num_clusters)]

\* A split that leaves every cluster whole.
SplitCluster_whole(cluster, max_per_cluster) ==
    IF cluster # <<>> THEN <<cluster>> ELSE <<>>

\* A split that keeps the first piece of a cluster only.
SplitCluster_first_piece(cluster, max_per_cluster) ==
    IF cluster # <<>> THEN <<Take(cluster, max_per_cluster)>> ELSE <<>>

\* Lines 116-120: cut a cluster into pieces of at most max_per_cluster.
RECURSIVE SplitCluster(_, _)
SplitCluster(cluster, max_per_cluster) ==
    IF Len(cluster) > max_per_cluster
    THEN <<Take(cluster, max_per_cluster)>>
         \o SplitCluster(Drop(cluster, max_per_cluster), max_per_cluster)
    ELSE IF cluster # <<>> THEN <<cluster>> ELSE <<>>

\* Line 111: i % num_clusters raises ZeroDivisionError for the first stop
\* when the vehicle list is empty.
_cluster_stops_raises(stops, num_clusters) == num_clusters = 0 /\ stops # <<>>

_cluster_stops(stops, num_clusters, max_per_cluster) ==
    LET clusters == RoundRobin(stops, num_clusters)
    IN  Concat([k \in 1..num_clusters |-> SplitCluster(clusters[k], max_per_cluster)])

(***************************************************************************)
(* RouteOptimizer._solve_tsp and the two solvers.  The argument is the     *)
(* list route_stops = [depot] + vehicle_stops + [depot]; the result is a   *)
(* list of 0-based indices into it, or the exception raised.               *)
(***************************************************************************)
Raised(e) == [raised |-> e, order |-> <<>>]
Returned(o) == [raised |-> "", order |-> o]

\* Lines 140-142: the length is bound to num_stops and then read as
\* num_steps, a name that is bound nowhere: the read raises NameError
\* before anything else of the solver runs.
_brute_force_tsp(stops) == Raised("NameError")

\* Lines 176-181: the unvisited index at minimum distance from `last`,
\* the lowest such index (a later index replaces it only when strictly
\* nearer).
Nearest(stops, last, unvisited) ==
    CHOOSE j \in unvisited :
        \A k \in unvisited :
            \/ _calculate_distance(stops[last + 1], stops[j + 1])
                   < _calculate_distance(stops[last + 1], stops[k + 1])
            \/ /\ _calculate_distance(stops[last + 1], stops[j + 1])
                      = _calculate_distance(stops[last + 1], stops[k + 1])
               /\ j <= k

\* Lines 171-185: extend the path until every index is visited.
RECURSIVE NearestNeighborPath(_, _, _)
NearestNeighborPath(stops, path, unvisited) ==
    IF unvisited = {} THEN path
    ELSE LET nearest == Nearest(stops, path[Len(path)], unvisited)
         IN  NearestNeighborPath(stops, Append(path, nearest), unvisited \ {nearest})

\* Lines 166-187: start at index 0, return path[1:].
_nearest_neighbor_tsp(stops) ==
    Returned(Tail(NearestNeighborPath(stops, <<0>>, 1..(Len(stops) - 1))))

BruteForceLimit == 8

\* Lines 130-136: the solver chosen for a list of points; the list is the
\* route_stops of line 63, the depot at both ends included.
SolverFor(stops) ==
    IF Len(stops) <= BruteForceLimit THEN "_brute_force_tsp" ELSE "_nearest_neighbor_tsp"

\* Lines 130-136.
_solve_tsp(stops) ==
    IF SolverFor(stops) = "_brute_force_tsp"
    THEN _brute_force_tsp(stops)
    ELSE _nearest_neighbor_tsp(stops)

(***************************************************************************)
(* RouteOptimizer._calculate_route_metrics, lines 200-216: one leg per     *)
(* consecutive pair of the route; a leg for which the road network has no  *)
(* path adds nothing.                                                      *)
(***************************************************************************)
RouteLegs(route) ==
    [i \in 1..(Len(route) - 1) |-> [origin |-> route[i], dest |-> route[i + 1]]]

\* graph_builder.get_shortest_path: a path, or None when the network has
\* none between two distinct locations.
HasPath(leg, road_ok) == road_ok \/ leg.origin.loc = leg.dest.loc

RECURSIVE SumLegs(_, _)
SumLegs(legs, road_ok) ==
    IF legs = <<>> THEN 0
    ELSE (IF HasPath(Head(legs), road_ok)
          THEN _calculate_distance(Head(legs).origin, Head(legs).dest)
          ELSE 0) + SumLegs(Tail(legs), road_ok)

_calculate_route_metrics(route, road_ok) ==
    [legs |-> RouteLegs(route), distance_m |-> SumLegs(RouteLegs(route), road_ok)]

(***************************************************************************)
(* RouteOptimizer.optimize_routes, lines 49-98.                            *)
(***************************************************************************)
\* Line 63.
RouteStops(vehicle_stops) == <<Depot>> \o vehicle_stops \o <<Depot>>

\* Lines 62-83: the route of one (vehicle, cluster) pair.
VehicleRoute(vehicle, vehicle_stops, road_ok) ==
    LET route_stops == RouteStops(vehicle_stops)
        tsp == _solve_tsp(route_stops)
        ordered == [i \in 1..Len(tsp.order) |-> route_stops[tsp.order[i] + 1]]
        metrics == _calculate_route_metrics(ordered, road_ok)
    IN  [raised |-> tsp.raised,
         vehicle_id |-> vehicle,
         assigned |-> vehicle_stops,
         stops |-> ordered,
         legs |-> metrics.legs,
         distance_m |-> metrics.distance_m]

\* Line 58: zip(vehicles, clusters) pairs as many as the shorter has.
ZipLen(num_vehicles, clusters) == Min2(num_vehicles, Len(clusters))

optimize_routes(req) ==
    LET clusters == _cluster_stops(req.stops, req.num_vehicles, req.max_stops_per_vehicle)
        n == ZipLen(req.num_vehicles, clusters)
        built == [i \in 1..n |-> VehicleRoute(i, clusters[i], req.road_ok)]
    IN  IF _cluster_stops_raises(req.stops, req.num_vehicles)
        THEN [status |-> "raised", error |-> "ZeroDivisionError",
              clusters |-> <<>>, routes |-> <<>>]
        ELSE IF \E i \in 1..n : built[i].raised # ""
        THEN [status |-> "raised", error |-> "NameError",
              clusters |-> clusters, routes |-> <<>>]
        ELSE [status |-> "ok", error |-> "", clusters |-> clusters, routes |-> built]

(***************************************************************************)
(* backend/ml/route_optimizer.py: RouteOptimizer.optimize_routes, the      *)
(* capacitated routing request handed to the OR-Tools routing solver.      *)
(* A vehicle is [capacity_kg, current_load_kg]; a stop is its demand_kg.   *)
(***************************************************************************)
RECURSIVE SumSeq(_)
SumSeq(s) == IF s = <<>> THEN 0 ELSE Head(s) + SumSeq(Tail(s))

\* Lines 156-157: route_load adds the demand of every stop of the route.
RouteLoad(req, route) == SumSeq([i \in 1..Len(route) |-> req.stops[route[i]]])

\* Lines 106-113: the loop registers the dimension 'Capacity' once per
\* vehicle, each time with the list [vehicle['capacity_kg']] * num_vehicles.
\* The solver keeps the first dimension of a name and refuses the later
\* ones, so every vehicle is bounded by the capacity of vehicles[0];
\* current_load_kg is read nowhere.
SolverCapacity(req, v) == req.vehicles[1].capacity_kg

\* Sequences over S without repetition.
SeqsNoRep(S) ==
    UNION {{q \in [1..n -> S] : \A a, b \in 1..n : a # b => q[a] # q[b]} :
              n \in 0..Cardinality(S)}

\* Lines 80-113: what the routing model accepts: every stop is on exactly
\* one vehicle's route (no node is optional) and the cumulated demand of a
\* route stays within the dimension's capacity for that vehicle.
Feasible(req, sol) ==
    /\ \A i \in 1..Len(req.stops) :
           Cardinality({vk \in (1..Len(req.vehicles)) \X (1..MaxCvrpStops + 1) :
                           /\ vk[2] <= Len(sol[vk[1]])
                           /\ sol[vk[1]][vk[2]] = i}) = 1
    /\ \A v \in 1..Len(req.vehicles) : RouteLoad(req, sol[v]) <= SolverCapacity(req, v)

\* Line 126: the solutions SolveWithParameters can return.
Solutions(req) ==
    {sol \in [1..Len(req.vehicles) -> SeqsNoRep(1..Len(req.stops))] : Feasible(req, sol)}

\* Lines 138-184: _format_solution, one route per vehicle.
_format_solution(req, sol) ==
    [status |-> "success",
     error |-> "",
     routes |-> [v \in 1..Len(req.vehicles) |->
                    [vehicle_id |-> v, load_kg |-> RouteLoad(req, sol[v]), stops |-> sol[v]]]]

ErrorResult(msg) == [status |-> "error", error |-> msg, routes |-> <<>>]

\* Lines 70-136.  The results optimize_routes can return for req: an empty
\* stop list fails at request_data['stops'][0] (line 99) and the except
\* clause turns the IndexError into an error result; otherwise the solver
\* returns a solution, which is formatted, or none (there is none, or the
\* search did not find one), which is the error result of line 132.
CvrpResults(req) ==
    IF req.stops = <<>>
    THEN {ErrorResult("Failed to optimize routes")}
    ELSE {_format_solution(req, sol) : sol \in Solutions(req)}
             \cup {ErrorResult("No solution found")}

(***************************************************************************)
(* backend/ai_agents/route_optimization_agent.py: the cost model of        *)
(* RouteOptimizationAgent.  Factors are fixed-point numbers, One standing  *)
(* for 1.0.  A key that the dictionary does not hold is Missing.           *)
(***************************************************************************)
One == 100000
Missing == -9999       \* a numeric key the dictionary does not hold
NoKey == "missing"     \* a string key the dictionary does not hold

\* dict.get(key, default)
Get(v, default) == IF v = Missing THEN default ELSE v
GetStr(v, default) == IF v = NoKey THEN default ELSE v
Max2(a, b) == IF a >= b THEN a ELSE b

\* Line 616: an incident counts when _distance_to_route, here carried by the
\* incident in thousandths of a degree, is below 0.01.
CorridorDeg == 10

\* Lines 617-623: the severity (default 'medium') scales the factor by 1.2,
\* 1.5 or, for anything else, 2.0.
SeverityScaled(factor, severity) ==
    IF GetStr(severity, "medium") = "low" THEN (factor * 12) \div 10
    ELSE IF GetStr(severity, "medium") = "medium" THEN (factor * 15) \div 10
    ELSE (factor * 20) \div 10

\* Lines 610-623.
RECURSIVE ApplyIncidents(_, _)
ApplyIncidents(base_factor, incidents) ==
    IF incidents = <<>> THEN base_factor
    ELSE ApplyIncidents(
            IF Head(incidents).dist_to_route < CorridorDeg
            THEN SeverityScaled(base_factor, Head(incidents).severity)
            ELSE base_factor,
            Tail(incidents))

\* Lines 603-607: 1.0 + density * 1.5, density in hundredths, default 0.5.
DensityFactor(density) == One + (Get(density, 50) * 15 * (One \div 100)) \div 10

_get_traffic_factor_unfloored(traffic_conditions) ==
    ApplyIncidents(DensityFactor(traffic_conditions.density), traffic_conditions.incidents)

\* Lines 590-626.
_get_traffic_factor(traffic_conditions) ==
    Max2(One, ApplyIncidents(DensityFactor(traffic_conditions.density),
                             traffic_conditions.incidents))

\* str.lower() on the condition names used here.
Lower(c) == IF c = "RAIN" THEN "rain" ELSE c

\* Lines 682-708: condition_factors.get(condition, 1.0), in tenths.
ConditionTenths(condition) ==
    CASE condition \in {"clear", "clouds", "partly-cloudy", "cloudy"} -> 10
      [] condition \in {"light rain", "haze"} -> 12
      [] condition \in {"rain", "mist"} -> 13
      [] condition \in {"moderate rain", "dust"} -> 14
      [] condition \in {"showers", "light snow", "fog"} -> 15
      [] condition = "sand" -> 16
      [] condition = "heavy rain" -> 17
      [] condition = "ash" -> 18
      [] condition \in {"thunderstorm", "snow", "squall"} -> 20
      [] condition = "heavy snow" -> 25
      [] condition = "tornado" -> 30
      [] OTHER -> 10

Tenths(t) == t * (One \div 10)

\* Lines 711-717, precipitation in mm/h, default 0.
PrecipitationRaised(factor, precipitation) ==
    IF Get(precipitation, 0) > 10 THEN Max2(factor, Tenths(17))
    ELSE IF Get(precipitation, 0) > 5 THEN Max2(factor, Tenths(15))
    ELSE IF Get(precipitation, 0) > 2 THEN Max2(factor, Tenths(12))
    ELSE factor

\* A wind adjustment that sets the factor to the tier value instead of
\* raising it to that value.
WindRaised_replacing(factor, wind_speed) ==
    IF Get(wind_speed, 0) > 50 THEN Tenths(20)
    ELSE IF Get(wind_speed, 0) > 30 THEN Tenths(15)
    ELSE IF Get(wind_speed, 0) > 20 THEN Tenths(12)
    ELSE factor

\* Lines 720-726, wind speed in km/h, default 0.
WindRaised(factor, wind_speed) ==
    IF Get(wind_speed, 0) > 50 THEN Max2(factor, Tenths(20))
    ELSE IF Get(wind_speed, 0) > 30 THEN Max2(factor, Tenths(15))
    ELSE IF Get(wind_speed, 0) > 20 THEN Max2(factor, Tenths(12))
    ELSE factor

\* Lines 729-735, visibility in hundredths of a km, default 10 km.
VisibilityRaised(factor, visibility) ==
    IF Get(visibility, 1000) < 10 THEN Max2(factor, Tenths(20))
    ELSE IF Get(visibility, 1000) < 50 THEN Max2(factor, Tenths(17))
    ELSE IF Get(visibility, 1000) < 100 THEN Max2(factor, Tenths(13))
    ELSE factor

\* Lines 738-740, temperature in degrees Celsius, default 20.
TemperatureRaised(factor, temperature) ==
    IF Get(temperature, 20) > 35 \/ Get(temperature, 20) < -5
    THEN Max2(factor, Tenths(13))
    ELSE factor

\* Lines 669-743.
_get_weather_factor(weather_conditions) ==
    Max2(One,
         TemperatureRaised(
            VisibilityRaised(
               WindRaised(
                  PrecipitationRaised(
                     Tenths(ConditionTenths(Lower(GetStr(weather_conditions.condition, "clear")))),
                     weather_conditions.precipitation),
                  weather_conditions.wind_speed),
               weather_conditions.visibility),
            weather_conditions.temperature))

NoTraffic == [density |-> Missing, incidents |-> <<>>]
NoWeather == [condition |-> NoKey, precipitation |-> Missing, wind_speed |-> Missing,
              visibility |-> Missing, temperature |-> Missing]

\* Lines 580-588: the record the except clause returns.
DefaultWeather == [condition |-> "clear", precipitation |-> 0, wind_speed |-> 10,
                   visibility |-> 1000, temperature |-> 22]

\* Lines 534-588.  The mock record is built from random.choice and friends,
\* and the module never imports random (lines 1-18): building it raises
\* NameError inside the try, and the except clause returns the default.
_get_current_weather == DefaultWeather

\* Lines 485-519.  The new traffic record is built with random.random():
\* the NameError is raised before self.traffic_data is assigned and is
\* logged by the except clause, so the stored record stays as it was.
_update_traffic_data(traffic_data) == traffic_data

\* Dictionary update: the keys `other` holds replace those of `conds`.
UpdatedWith(conds, other) ==
    [density |-> Get(other.density, conds.density),
     incidents |-> IF other.incidents # <<>> THEN other.incidents ELSE conds.incidents]

\* Lines 222-256: preprocess, for a request without a camera feed.  The
\* agent's traffic_data is {} when it is built (line 68).
preprocess(data, traffic_data, refresh_due) ==
    LET refreshed == IF refresh_due THEN _update_traffic_data(traffic_data) ELSE traffic_data
    IN  [traffic_conditions |-> UpdatedWith(data.traffic_conditions, refreshed),
         weather_conditions |-> IF data.weather_conditions = NoWeather
                                THEN _get_current_weather
                                ELSE data.weather_conditions]

\* Lines 404-405: the factors _find_optimal_path scores a leg with.
LegFactors(processed) ==
    [traffic_factor |-> _get_traffic_factor(processed.traffic_conditions),
     weather_factor |-> _get_weather_factor(processed.weather_conditions)]

(***************************************************************************)
(* backend/services/camera_feed_manager.py: CameraFeedManager, and the     *)
(* camera registry of RouteOptimizationAgent that drives it.               *)
(*                                                                         *)
(* A frame is [camera_id, thread, seq]: seq stands for the timestamp, and  *)
(* thread is the number of the capture thread that produced it.           *)
(***************************************************************************)
Cameras == {"cam1"}

\* Frames a capture thread reads in a run: enough to overflow the queue.
MaxFrames == QueueSize + 1

NoFrame == [camera_id |-> "none", thread |-> 0, seq |-> 0]

\* 'traffic_conditions': {} (agent line 105, and what _analyze_traffic
\* returns when nothing was analysed): a dictionary without any of the keys.
EmptyConditions == [empty |-> TRUE, vehicle_count |-> Missing, density |-> Missing,
                    is_congested |-> FALSE]

\* Agent line 76.
traffic_jam_threshold == 10

\* What the detection collaborator (the YOLO model and the tracker) makes
\* of a frame: it raises (Missing), or it yields this many vehicles.
VehicleCounts == {0, 10, 12, 60}
DetectResults == VehicleCounts \cup {Missing}

\* Agent lines 413-483: _analyze_traffic.  {} when the collaborator raised
\* (lines 481-483), when there is no tracker or no detection (lines 446,
\* 479); else the dictionary of lines 470-477, density in units of 1/One.
_analyze_traffic(has_tracker, detected) ==
    IF detected = Missing THEN EmptyConditions
    ELSE IF has_tracker /\ detected > 0
    THEN [empty |-> FALSE,
          vehicle_count |-> detected,
          density |-> Min2(One, (detected * One) \div 50),
          is_congested |-> detected > traffic_jam_threshold]
    ELSE EmptyConditions

\* An entry of camera_data.  registration numbers the add_camera_feed call
\* that created the entry and written_by the registration whose frame was
\* last written into it (0: none); the code keeps neither.
NoEntry == [present |-> FALSE, traffic_conditions |-> EmptyConditions,
            registration |-> 0, written_by |-> 0]
NotStarted == [camera_id |-> "none", pc |-> "none", seq |-> 0, frame |-> NoFrame, dropped_new |-> FALSE]
Polling == [pc |-> "poll", frame |-> NoFrame, detected |-> Missing]

\* No add_camera_feed or remove_camera_feed call was made yet.
NoReply == [op |-> "none", camera_id |-> "none", outcome |-> "none"]

\* CameraFeedManager.__init__ (lines 24-34) and the agent's registries
\* (agent lines 69, 80-81).
FeedConstructed ==
    /\ camera_queues = [c \in Cameras |-> <<>>]
    /\ queued = {}
    /\ camera_threads = [c \in Cameras |-> 0]
    /\ callbacks = {}
    /\ stop_event = FALSE
    /\ capture = [t \in 1..MaxCaptures |-> NotStarted]
    /\ started = 0
    /\ worker = [w \in 1..NumWorkers |-> Polling]
    /\ active_cameras = {}
    /\ camera_data = [c \in Cameras |-> NoEntry]
    /\ reply = NoReply

\* Agent lines 66 and 186-197: the tracker is None unless ByteTrack can be
\* imported and its weights are on disk.
FeedIdle ==
    /\ FeedConstructed
    /\ tracker = FALSE

\* A queue without maxsize: put_nowait never raises queue.Full.
Full_unbounded(c) == FALSE

\* queue.Queue.put_nowait and get_nowait on the queue of camera c.
Full(c) == Len(camera_queues[c]) >= QueueSize
\* A get_nowait that finds every queue empty: it always raises queue.Empty.
Empty_always(c) == TRUE

Empty(c) == camera_queues[c] = <<>>

\* Lines 47-71: add_camera.  Returns at once when the id has a queue.
add_camera(c) ==
    IF c \in queued
    THEN UNCHANGED <<managerVars, threadVars>>
    ELSE /\ camera_queues' = [camera_queues EXCEPT ![c] = <<>>]
         /\ queued' = queued \cup {c}
         /\ callbacks' = callbacks \cup {c}
         /\ started' = started + 1
         /\ camera_threads' = [camera_threads EXCEPT ![c] = started + 1]
         /\ capture' = [capture EXCEPT ![started + 1] =
                           [NotStarted EXCEPT !.camera_id = c, !.pc = "open"]]
         /\ UNCHANGED <<stop_event, worker>>

\* A remove_camera that leaves the manager as it is.
remove_camera_noop(c) == UNCHANGED <<managerVars, threadVars>>

\* Lines 73-92: remove_camera.  join(timeout=1.0) waits for the capture
\* thread without telling it to stop, so the thread is left as it is.
remove_camera(c) ==
    IF c \in queued
    THEN /\ camera_threads' = [camera_threads EXCEPT ![c] = 0]
         /\ camera_queues' = [camera_queues EXCEPT ![c] = <<>>]
         /\ queued' = queued \ {c}
         /\ callbacks' = callbacks \ {c}
         /\ UNCHANGED <<stop_event, threadVars>>
    ELSE UNCHANGED <<managerVars, threadVars>>

\* Agent lines 86-116: add_camera_feed.  For an id that is monitored
\* already it logs a warning and returns None (lines 97-99), as it returns
\* None after adding.
AddCameraFeed(c) ==
    /\ started < MaxCaptures
    /\ IF c \in active_cameras
       THEN /\ reply' = [op |-> "add_camera_feed", camera_id |-> c, outcome |-> "warning"]
            /\ UNCHANGED <<managerVars, threadVars, active_cameras, camera_data>>
       ELSE /\ camera_data' = [camera_data EXCEPT ![c] =
                                  [present |-> TRUE, traffic_conditions |-> EmptyConditions,
                                   registration |-> started + 1, written_by |-> 0]]
            /\ add_camera(c)
            /\ active_cameras' = active_cameras \cup {c}
            /\ reply' = [op |-> "add_camera_feed", camera_id |-> c, outcome |-> "added"]
    /\ UNCHANGED <<tracker, routeVars, cvrpVars, costVars, partVars, apiVars,
                   splitVars, predictVars, wsVars>>

\* Agent lines 118-125: remove_camera_feed.
RemoveCameraFeed(c) ==
    /\ c \in active_cameras
    /\ remove_camera(c)
    /\ camera_data' = [camera_data EXCEPT ![c] = NoEntry]
    /\ active_cameras' = active_cameras \ {c}
    /\ reply' = [op |-> "remove_camera_feed", camera_id |-> c, outcome |-> "removed"]
    /\ UNCHANGED <<tracker, routeVars, cvrpVars, costVars, partVars, apiVars,
                   splitVars, predictVars, wsVars>>

\* Lines 185-197: stop.  Sets the event and removes every camera that has a
\* capture thread; the agent's registries are not told.
Stop ==
    /\ ~stop_event
    /\ stop_event' = TRUE
    /\ camera_threads' = [c \in Cameras |-> 0]
    /\ camera_queues' = [c \in Cameras |->
                            IF camera_threads[c] # 0 THEN <<>> ELSE camera_queues[c]]
    /\ queued' = {c \in queued : camera_threads[c] = 0}
    /\ callbacks' = {c \in callbacks : camera_threads[c] = 0}
    /\ UNCHANGED <<threadVars, agentVars, routeVars, cvrpVars, costVars, partVars, apiVars,
                   splitVars, predictVars, wsVars>>

(***************************************************************************)
(* _capture_frames, lines 94-139: one capture thread.                      *)
(***************************************************************************)
Exited(t) == [capture EXCEPT ![t].pc = "exited", ![t].frame = NoFrame]

\* Lines 96-100: the capture device opens, or the thread returns.
CaptureOpen(t) ==
    /\ capture[t].pc = "open"
    /\ \E opened \in BOOLEAN :
          capture' = IF opened THEN [capture EXCEPT ![t].pc = "read"] ELSE Exited(t)
    /\ UNCHANGED <<managerVars, started, worker, agentVars, routeVars, cvrpVars, costVars, partVars, apiVars,
                   splitVars, predictVars, wsVars>>

\* Line 105: the loop ends once stop_event is set.
CaptureStopped(t) ==
    /\ capture[t].pc = "read"
    /\ stop_event
    /\ capture' = Exited(t)
    /\ UNCHANGED <<managerVars, started, worker, agentVars, routeVars, cvrpVars, costVars, partVars, apiVars,
                   splitVars, predictVars, wsVars>>

\* Lines 106-123: read a frame and put_nowait it.  camera_queues[camera_id]
\* raises KeyError once the camera is removed, which ends the thread (line
\* 135); queue.Full leads to the drop-oldest branch.
CapturePut(t) ==
    LET c == capture[t].camera_id
        f == [camera_id |-> c, thread |-> t, seq |-> capture[t].seq + 1]
    IN  /\ capture[t].pc = "read"
        /\ ~stop_event
        /\ capture[t].seq < MaxFrames
        /\ IF c \notin queued
           THEN /\ capture' = Exited(t)
                /\ UNCHANGED camera_queues
           ELSE IF Full(c)
           THEN /\ capture' = [capture EXCEPT ![t].pc = "full", ![t].seq = f.seq, ![t].frame = f]
                /\ UNCHANGED camera_queues
           ELSE /\ capture' = [capture EXCEPT ![t].seq = f.seq]
                /\ camera_queues' = [camera_queues EXCEPT ![c] = Append(@, f)]
        /\ UNCHANGED <<queued, camera_threads, callbacks, stop_event, started, worker,
                       agentVars, routeVars, cvrpVars, costVars, partVars, apiVars,
                   splitVars, predictVars, wsVars>>

\* Lines 125-126 and 129-130: get_nowait drops the oldest frame; when the
\* workers emptied the queue meanwhile it raises queue.Empty, which is
\* passed over, and the new frame is not put.
CaptureDropOldest(t) ==
    LET c == capture[t].camera_id
    IN  /\ capture[t].pc = "full"
        /\ IF c \notin queued
           THEN /\ capture' = Exited(t)
                /\ UNCHANGED camera_queues
           ELSE IF Empty(c)
           THEN /\ capture' = [capture EXCEPT ![t].pc = "read", ![t].frame = NoFrame,
                                              ![t].dropped_new = TRUE]
                /\ UNCHANGED camera_queues
           ELSE /\ capture' = [capture EXCEPT ![t].pc = "put"]
                /\ camera_queues' = [camera_queues EXCEPT ![c] = Tail(@)]
        /\ UNCHANGED <<queued, camera_threads, callbacks, stop_event, started, worker,
                       agentVars, routeVars, cvrpVars, costVars, partVars, apiVars,
                   splitVars, predictVars, wsVars>>

\* Line 127: the second put_nowait.  queue.Full here (another capture
\* thread of the same id refilled the queue) is caught by no inner handler
\* and ends the thread at line 135.
CapturePutAgain(t) ==
    LET c == capture[t].camera_id
    IN  /\ capture[t].pc = "put"
        /\ IF c \notin queued \/ Full(c)
           THEN /\ capture' = Exited(t)
                /\ UNCHANGED camera_queues
           ELSE /\ capture' = [capture EXCEPT ![t].pc = "read", ![t].frame = NoFrame]
                /\ camera_queues' = [camera_queues EXCEPT ![c] = Append(@, capture[t].frame)]
        /\ UNCHANGED <<queued, camera_threads, callbacks, stop_event, started, worker,
                       agentVars, routeVars, cvrpVars, costVars, partVars, apiVars,
                   splitVars, predictVars, wsVars>>

(***************************************************************************)
(* _process_queues, lines 141-173: one worker thread, and the callback     *)
(* process_frame -> _process_camera_frame (agent lines 110-111, 127-154).  *)
(***************************************************************************)
\* Lines 146-152: get_nowait on a queue that holds a frame; the callback is
\* entered when the camera has one, else the frame is done with.
WorkerDequeue(w) ==
    /\ worker[w].pc = "poll"
    /\ ~stop_event
    /\ \E c \in queued :
          /\ ~Empty(c)
          /\ camera_queues' = [camera_queues EXCEPT ![c] = Tail(@)]
          /\ worker' = IF c \in callbacks
                       THEN [worker EXCEPT ![w] = [Polling EXCEPT !.pc = "callback",
                                                                  !.frame = Head(camera_queues[c])]]
                       ELSE worker
    /\ UNCHANGED <<queued, camera_threads, callbacks, stop_event, capture, started,
                   agentVars, routeVars, cvrpVars, costVars, partVars, apiVars,
                   splitVars, predictVars, wsVars>>

\* Agent lines 130-137: return when the camera has no entry, else go on to
\* analyse the frame.
WorkerEnterCallback(w) ==
    /\ worker[w].pc = "callback"
    /\ worker' = IF camera_data[worker[w].frame.camera_id].present
                 THEN [worker EXCEPT ![w].pc = "analyze"]
                 ELSE [worker EXCEPT ![w] = Polling]
    /\ UNCHANGED <<managerVars, capture, started, agentVars, routeVars, cvrpVars, costVars, partVars, apiVars,
                   splitVars, predictVars, wsVars>>

\* Agent line 137: the detection collaborator runs on the frame.
WorkerAnalyzeOf(w, results) ==
    /\ worker[w].pc = "analyze"
    /\ \E detected \in results :
          worker' = [worker EXCEPT ![w].pc = "write", ![w].detected = detected]
    /\ UNCHANGED <<managerVars, capture, started, agentVars, routeVars, cvrpVars, costVars, partVars, apiVars,
                   splitVars, predictVars, wsVars>>

WorkerAnalyze(w) == WorkerAnalyzeOf(w, DetectResults)

\* Agent lines 137-141: what _analyze_traffic returned is written into the
\* entry; without an entry the write raises KeyError, logged at line 154.
WorkerUpdate(w) ==
    LET c == worker[w].frame.camera_id
        traffic_data == _analyze_traffic(tracker, worker[w].detected)
    IN  /\ worker[w].pc = "write"
        /\ camera_data' = IF camera_data[c].present
                          THEN [camera_data EXCEPT ![c].traffic_conditions = traffic_data,
                                                   ![c].written_by = worker[w].frame.thread]
                          ELSE camera_data
        /\ worker' = [worker EXCEPT ![w] = Polling]
        /\ UNCHANGED <<managerVars, capture, started, active_cameras, tracker, reply,
                       routeVars, cvrpVars, costVars, partVars, apiVars,
                   splitVars, predictVars, wsVars>>

\* A worker loop that does not test stop_event: the thread polls on.
WorkerStopped_polling_on(w) ==
    /\ worker[w].pc = "poll"
    /\ stop_event
    /\ UNCHANGED vars

\* Line 143: the loop ends once stop_event is set.
WorkerStopped(w) ==
    /\ worker[w].pc = "poll"
    /\ stop_event
    /\ worker' = [worker EXCEPT ![w].pc = "exited"]
    /\ UNCHANGED <<managerVars, capture, started, agentVars, routeVars, cvrpVars, costVars, partVars, apiVars,
                   splitVars, predictVars, wsVars>>

(***************************************************************************)
(* The pairing of vehicles and clusters in RouteOptimizer.optimize_routes  *)
(* (optimizer.py lines 57-66).                                             *)
(***************************************************************************)
\* Line 58: zip(vehicles, clusters): the vehicle at position k of the list
\* (from 1 here) is handed clusters[k], for as many as the shorter has.
ZipPairs(num_vehicles, clusters) ==
    [k \in 1..ZipLen(num_vehicles, clusters) |-> clusters[k]]

NoPartition == [clusters |-> <<>>, paired |-> <<>>]

PartIdle ==
    /\ partPc = "idle"
    /\ partReq = [stops |-> <<>>, num_vehicles |-> 1, max_stops_per_vehicle |-> 1]
    /\ partRes = NoPartition

(***************************************************************************)
(* backend/api/route_optimizer.py: the handler of POST /optimize-routes.   *)
(* A coordinate is a number of degrees, or Missing for a key that is       *)
(* absent or None.  The request holds how many vehicles it lists (Missing: *)
(* no 'vehicles' key), its stops, and its depot.                           *)
(***************************************************************************)
\* Python truth of a number or None, as `not depot['lat']` reads it.
Falsy(v) == v = Missing \/ v = 0

NoDepot == [given |-> FALSE, lat |-> Missing, lng |-> Missing]

HttpError(code, detail) == [status_code |-> code, detail |-> detail]

\* Lines 273-279: optimizer.optimize_routes is called with the one
\* dictionary, but RouteOptimizer.optimize_routes (optimizer.py lines 24-29)
\* takes vehicles, stops and depot as separate arguments: TypeError.
EngineCall == "TypeError"

\* Lines 206-371.  init_ok: get_route_optimizer (lines 40-58) has or can
\* build the optimizer; when it cannot it raises the 500 of lines 54-57.
api_optimize_routes(request, init_ok) ==
    IF \/ request.vehicles = Missing \/ request.vehicles = 0
       \/ request.stops = <<>>
       \/ ~request.depot.given
    THEN HttpError(400, "Missing required fields (vehicles, stops, or depot)")
    ELSE IF ~init_ok
    THEN HttpError(500, "Failed to initialize route optimization service")
    ELSE IF \E i \in 1..Len(request.stops) :
               request.stops[i].lat = Missing \/ request.stops[i].lng = Missing
    THEN HttpError(400, "Invalid coordinates in stops")
    ELSE IF Falsy(request.depot.lat) \/ Falsy(request.depot.lng)
    THEN HttpError(400, "Invalid depot coordinates")
    ELSE HttpError(500, "Failed to optimize routes: " \o EngineCall)

NoHttpResponse == [status_code |-> 0, detail |-> ""]

ApiIdle ==
    /\ apiPc = "idle"
    /\ apiReq = [vehicles |-> Missing, stops |-> <<>>, depot |-> NoDepot, init_ok |-> TRUE]
    /\ apiRes = NoHttpResponse

(***************************************************************************)
(* RouteOptimizer._cluster_stops (optimizer.py lines 100-122) step by      *)
(* step, for any integer max_per_cluster.  split holds the arguments, the  *)
(* locals clusters (those the for loop has not reached yet), cluster and   *)
(* final_clusters, and the position in the code.                           *)
(***************************************************************************)
\* Python's cluster[:m] and cluster[m:]: a negative m counts from the end.
SliceUpTo(cluster, m) ==
    IF m >= 0 THEN Take(cluster, m) ELSE Take(cluster, Max2(Len(cluster) + m, 0))
SliceFrom(cluster, m) ==
    IF m >= 0 THEN Drop(cluster, m) ELSE Drop(cluster, Max2(Len(cluster) + m, 0))

\* final_clusters is followed up to this length.  A call that returns has
\* appended non-empty pieces only, no more than there are stops; a call
\* that has appended more has appended an empty piece, which leaves
\* cluster as it was, and the while condition true for good.
MaxPieces == MaxSplitStops + 1

SplitCall(stops, num_clusters, max_per_cluster) ==
    [pc |-> "call", stops |-> stops, num_clusters |-> num_clusters,
     max_per_cluster |-> max_per_cluster,
     clusters |-> <<>>, cluster |-> <<>>, final_clusters |-> <<>>]

SplitIdle == split = [SplitCall(<<>>, 1, 1) EXCEPT !.pc = "idle"]

\* Lines 109-111: the round-robin assignment, or ZeroDivisionError.
SplitRoundRobin ==
    /\ split.pc = "call"
    /\ split' = IF _cluster_stops_raises(split.stops, split.num_clusters)
                THEN [split EXCEPT !.pc = "raised"]
                ELSE [split EXCEPT !.pc = "for",
                                   !.clusters = RoundRobin(split.stops, split.num_clusters)]
    /\ UNCHANGED <<routeVars, cvrpVars, costVars, feedVars, partVars, apiVars,
                   predictVars, wsVars>>

\* Lines 115 and 122: the for loop takes the next cluster, or the function
\* returns final_clusters.
SplitNextCluster ==
    /\ split.pc = "for"
    /\ split' = IF split.clusters = <<>>
                THEN [split EXCEPT !.pc = "returned"]
                ELSE [split EXCEPT !.pc = "while",
                                   !.cluster = Head(split.clusters),
                                   !.clusters = Tail(split.clusters)]
    /\ UNCHANGED <<routeVars, cvrpVars, costVars, feedVars, partVars, apiVars,
                   predictVars, wsVars>>

\* Lines 116-118: one turn of the while loop.
SplitPiece ==
    /\ split.pc = "while"
    /\ Len(split.cluster) > split.max_per_cluster
    /\ Len(split.final_clusters) < MaxPieces
    /\ split' = [split EXCEPT
                    !.final_clusters = Append(@, SliceUpTo(split.cluster, split.max_per_cluster)),
                    !.cluster = SliceFrom(split.cluster, split.max_per_cluster)]
    /\ UNCHANGED <<routeVars, cvrpVars, costVars, feedVars, partVars, apiVars,
                   predictVars, wsVars>>

\* Lines 116 and 119-120: the while condition is false; what is left of
\* the cluster is appended unless it is empty.
SplitRest ==
    /\ split.pc = "while"
    /\ Len(split.cluster) <= split.max_per_cluster
    /\ split' = [split EXCEPT
                    !.pc = "for",
                    !.final_clusters = IF split.cluster # <<>>
                                       THEN Append(@, split.cluster) ELSE @]
    /\ UNCHANGED <<routeVars, cvrpVars, costVars, feedVars, partVars, apiVars,
                   predictVars, wsVars>>

(***************************************************************************)
(* RouteOptimizationAgent.predict (agent lines 258-302) with _solve_tsp    *)
(* (363-388) and _find_optimal_path (390-411).  Points lie on one          *)
(* meridian, a point being its latitude in whole degrees, so that the      *)
(* haversine distance of two points is proportional to the difference of   *)
(* their latitudes.  The request carries no traffic incident: every edge   *)
(* has the same traffic and weather factor.                                *)
(***************************************************************************)
Positions == 0..MaxPosition

\* A factor in thousandths.
Thousandths(factor) == factor \div (One \div 1000)

\* Lines 350-357: the weight of the edge between two points.
EdgeWeight(a, b, data) ==
    (IF a >= b THEN a - b ELSE b - a)
        * Thousandths(_get_traffic_factor(data.traffic_conditions))
        * Thousandths(_get_weather_factor(data.weather_conditions))

\* Lines 380-383: min() over the unvisited indices, by the weight of the
\* edge from the current one; the first of equal minima in the iteration
\* order of a set of small integers, which is ascending.
NearestUnvisited(points, current, unvisited, data) ==
    CHOOSE x \in unvisited :
        \A y \in unvisited :
            \/ EdgeWeight(points[current], points[x], data)
                   < EdgeWeight(points[current], points[y], data)
            \/ /\ EdgeWeight(points[current], points[x], data)
                      = EdgeWeight(points[current], points[y], data)
               /\ x <= y

\* Lines 373-386: the greedy loop; indices count from 1 here.
RECURSIVE GreedyPath(_, _, _, _)
GreedyPath(points, current, unvisited, data) ==
    IF unvisited = {} THEN <<>>
    ELSE LET next_point == NearestUnvisited(points, current, unvisited, data)
         IN  <<points[next_point]>>
                 \o GreedyPath(points, next_point, unvisited \ {next_point}, data)

\* Lines 363-388.  The agent's solver; the name _solve_tsp stands for
\* RouteOptimizer._solve_tsp above.
agent_solve_tsp(points, data) ==
    IF Len(points) <= 2 THEN points
    ELSE <<points[1]>> \o GreedyPath(points, 1, 2..Len(points), data)

\* Lines 390-411: the path between two points is the two points.
_find_optimal_path(start, end) == <<start, end>>

\* Lines 282-293: every leg's path without its last point, then the last
\* point of the order.
RECURSIVE RouteOf(_, _)
RouteOf(optimal_order, i) ==
    IF i >= Len(optimal_order) THEN <<optimal_order[Len(optimal_order)]>>
    ELSE LET path == _find_optimal_path(optimal_order[i], optimal_order[i + 1])
         IN  SubSeq(path, 1, Len(path) - 1) \o RouteOf(optimal_order, i + 1)

\* Lines 258-302.
predict(data) ==
    LET points == <<data.origin>> \o data.waypoints \o <<data.destination>>
        optimal_order == agent_solve_tsp(points, data)
    IN  [route |-> RouteOf(optimal_order, 1),
         waypoint_order |-> SubSeq(optimal_order, 2, Len(optimal_order) - 1)]

NoPrediction == [route |-> <<>>, waypoint_order |-> <<>>]

PredictData(origin, waypoints, destination) ==
    [origin |-> origin, waypoints |-> waypoints, destination |-> destination,
     traffic_conditions |-> NoTraffic, weather_conditions |-> NoWeather]

PredictIdle ==
    /\ predictPc = "idle"
    /\ predictReq = PredictData(0, <<>>, 0)
    /\ predictRes = NoPrediction

(***************************************************************************)
(* backend/api/websocket_manager.py: ConnectionManager and the endpoint's  *)
(* receive loop.  A manager state m is [active_connections, subscriptions, *)
(* connection_topics]; a topic that is no key of subscriptions and a topic *)
(* with an empty list are both the empty sequence, which no line of the    *)
(* code tells apart.                                                       *)
(***************************************************************************)
Clients == {"c1", "c2"}
Topics == {"t1", "t2"}

InList(list, x) == \E i \in 1..Len(list) : list[i] = x
\* list.remove(x)
ListRemove(list, x) ==
    LET i == CHOOSE j \in 1..Len(list) : list[j] = x /\ \A k \in 1..(j - 1) : list[k] # x
    IN  SubSeq(list, 1, i - 1) \o SubSeq(list, i + 1, Len(list))

NoTopics == [present |-> FALSE, topics |-> <<>>]

Manager(ac, su, ct) ==
    [active_connections |-> ac, subscriptions |-> su, connection_topics |-> ct]

\* Lines 34-40: subscribe.  connection_topics[client_id] raises KeyError,
\* after the append to subscriptions[topic], when the client has no entry.
subscribe(m, client_id, topic) ==
    IF InList(m.subscriptions[topic], client_id)
    THEN m
    ELSE [m EXCEPT !.subscriptions[topic] = Append(@, client_id),
                   !.connection_topics[client_id] =
                       IF @.present THEN [@ EXCEPT !.topics = Append(@, topic)] ELSE @]

\* Lines 42-47: unsubscribe.
unsubscribe(m, client_id, topic) ==
    IF InList(m.subscriptions[topic], client_id)
    THEN [m EXCEPT !.subscriptions[topic] = ListRemove(@, client_id),
                   !.connection_topics[client_id] =
                       IF @.present /\ InList(@.topics, topic)
                       THEN [@ EXCEPT !.topics = ListRemove(@, topic)] ELSE @]
    ELSE m

\* Lines 26-27: unsubscribe from every topic of a copy of the client's list.
RECURSIVE UnsubscribeAll(_, _, _)
UnsubscribeAll(m, client_id, topics) ==
    IF topics = <<>> THEN m
    ELSE UnsubscribeAll(unsubscribe(m, client_id, Head(topics)), client_id, Tail(topics))

\* Lines 23-32: disconnect.
disconnect(m, client_id) ==
    IF client_id \in m.active_connections
    THEN LET u == UnsubscribeAll(m, client_id, m.connection_topics[client_id].topics)
         IN  [u EXCEPT !.active_connections = @ \ {client_id},
                       !.connection_topics[client_id] = NoTopics]
    ELSE m

\* Lines 17-21: connect.
connect(m, client_id) ==
    [m EXCEPT !.active_connections = @ \cup {client_id},
              !.connection_topics[client_id] = [present |-> TRUE, topics |-> <<>>]]

WsIdle ==
    /\ active_connections = {}
    /\ subscriptions = [t \in Topics |-> <<>>]
    /\ connection_topics = [c \in Clients |-> NoTopics]
    /\ endpoint = [c \in Clients |-> "closed"]

(***************************************************************************)
(* SpecRoute: every request within the bounds, then optimize_routes.       *)
(***************************************************************************)
StopLists == UNION {[1..n -> StopLocs] : n \in 0..MaxStops}

MakeStops(locs) == [i \in 1..Len(locs) |-> [id |-> i, loc |-> locs[i]]]

NoResponse == [status |-> "none", error |-> "", clusters |-> <<>>, routes |-> <<>>]

CostIdle ==
    /\ costPc = "idle"
    /\ costIn = [call |-> "none", traffic_conditions |-> NoTraffic,
                 weather_conditions |-> NoWeather, refresh_due |-> FALSE]
    /\ costOut = [traffic_factor |-> One, weather_factor |-> One]

CvrpIdle ==
    /\ cvrpPc = "idle"
    /\ cvrpReq = [vehicles |-> <<>>, stops |-> <<>>]
    /\ cvrpRes = [status |-> "none", error |-> "", routes |-> <<>>]

RouteInit ==
    /\ FeedIdle
    /\ PartIdle
    /\ ApiIdle
    /\ SplitIdle
    /\ PredictIdle
    /\ WsIdle
    /\ CvrpIdle
    /\ CostIdle
    /\ routePc = "call"
    /\ routeRes = NoResponse
    /\ \E locs \in StopLists, nv \in 0..MaxVehicles,
          mx \in 1..MaxPerCluster, ok \in BOOLEAN :
          routeReq = [stops |-> MakeStops(locs), num_vehicles |-> nv,
                      max_stops_per_vehicle |-> mx, road_ok |-> ok]

OptimizeRoutes ==
    /\ routePc = "call"
    /\ routeRes' = optimize_routes(routeReq)
    /\ routePc' = "done"
    /\ UNCHANGED <<routeReq, cvrpVars, costVars, feedVars, partVars, apiVars,
                   splitVars, predictVars, wsVars>>

RouteNext == OptimizeRoutes

SpecRoute == RouteInit /\ [][RouteNext]_vars

(***************************************************************************)
(* SpecCvrp: every CVRP request within the bounds, then optimize_routes.   *)
(***************************************************************************)
RouteIdle ==
    /\ routePc = "idle"
    /\ routeRes = NoResponse
    /\ routeReq = [stops |-> <<>>, num_vehicles |-> 1,
                   max_stops_per_vehicle |-> 1, road_ok |-> TRUE]

\* capacity_kg > 0 and 0 <= current_load_kg <= capacity_kg.
CvrpVehicles ==
    {v \in [capacity_kg : 1..MaxCapacity, current_load_kg : 0..MaxCapacity] :
        v.current_load_kg <= v.capacity_kg}

CvrpInit ==
    /\ FeedIdle
    /\ PartIdle
    /\ ApiIdle
    /\ SplitIdle
    /\ PredictIdle
    /\ WsIdle
    /\ RouteIdle
    /\ CostIdle
    /\ cvrpPc = "call"
    /\ cvrpRes = [status |-> "none", error |-> "", routes |-> <<>>]
    /\ \E nv \in 1..MaxCvrpVehicles, n \in 0..MaxCvrpStops :
        \E vs \in [1..nv -> CvrpVehicles], ds \in [1..n -> 0..MaxDemand] :
            cvrpReq = [vehicles |-> vs, stops |-> ds]

CvrpOptimize ==
    /\ cvrpPc = "call"
    /\ cvrpRes' \in CvrpResults(cvrpReq)
    /\ cvrpPc' = "done"
    /\ UNCHANGED <<cvrpReq, routeVars, costVars, feedVars, partVars, apiVars,
                   splitVars, predictVars, wsVars>>

CvrpNext == CvrpOptimize

SpecCvrp == CvrpInit /\ [][CvrpNext]_vars

\* Total demand of the request and total capacity of its fleet.
TotalDemand(req) == SumSeq(req.stops)
FleetCapacity(req) == SumSeq([v \in 1..Len(req.vehicles) |-> req.vehicles[v].capacity_kg])

\* C2: the demand assigned to a returned route is at most the vehicle's
\* capacity_kg minus its current_load_kg.
C2_LoadWithinFreeCapacity ==
    cvrpRes.status = "success" =>
        \A v \in 1..Len(cvrpRes.routes) :
            cvrpRes.routes[v].load_kg
                <= cvrpReq.vehicles[v].capacity_kg - cvrpReq.vehicles[v].current_load_kg

\* The response has no unassigned_stops entry in any branch (lines 132,
\* 136, 178-184).
CvrpUnassigned(res) == {}

\* C3: when the total demand exceeds the capacity of the fleet, the answer is
\* a partial/infeasible solution that lists unassigned stops, not an error.
C3_InfeasibleIsPartial ==
    (cvrpPc = "done" /\ TotalDemand(cvrpReq) > FleetCapacity(cvrpReq)) =>
        /\ cvrpRes.status \in {"partial", "infeasible"}
        /\ CvrpUnassigned(cvrpRes) # {}

(***************************************************************************)
(* SpecCost: calls of the cost model.  costIn.call says which: the traffic *)
(* factor or the weather factor on given conditions, or the scoring of a   *)
(* leg of a request that went through preprocess.                          *)
(***************************************************************************)
Densities == {Missing, -100, 0, 24, 50, 100}
Severities == {NoKey, "low", "medium", "high"}
Incidents == [dist_to_route : {5, 20}, severity : Severities]
IncidentLists == UNION {[1..n -> Incidents] : n \in 0..MaxIncidents}
TrafficConditions == [density : Densities, incidents : IncidentLists]

WeatherConditions ==
    [condition : {NoKey, "clear", "RAIN", "fog", "tornado", "drizzle"},
     precipitation : {Missing, -1, 0, 3, 7, 11},
     wind_speed : {Missing, -5, 10, 25, 40, 60},
     visibility : {Missing, -100, 5, 30, 70, 1000},
     temperature : {Missing, -10, 22, 40}]

\* The requests of a leg: with or without traffic and weather conditions.
RequestTraffic == {NoTraffic, [density |-> 0, incidents |-> <<>>],
                   [density |-> 100, incidents |-> <<>>]}
RequestWeather == {NoWeather, DefaultWeather,
                   [DefaultWeather EXCEPT !.condition = "tornado"]}

NoFactors == [traffic_factor |-> One, weather_factor |-> One]

CostCall(call, tc, wc, due) ==
    [call |-> call, traffic_conditions |-> tc, weather_conditions |-> wc, refresh_due |-> due]

CostInit ==
    /\ FeedIdle
    /\ PartIdle
    /\ ApiIdle
    /\ SplitIdle
    /\ PredictIdle
    /\ WsIdle
    /\ RouteIdle
    /\ CvrpIdle
    /\ costPc = "call"
    /\ costOut = NoFactors
    /\ \/ \E tc \in TrafficConditions : costIn = CostCall("traffic", tc, NoWeather, FALSE)
       \/ \E wc \in WeatherConditions : costIn = CostCall("weather", NoTraffic, wc, FALSE)
       \/ \E tc \in RequestTraffic, wc \in RequestWeather, due \in BOOLEAN :
              costIn = CostCall("leg", tc, wc, due)

GetTrafficFactor ==
    /\ costPc = "call"
    /\ costIn.call = "traffic"
    /\ costOut' = [NoFactors EXCEPT !.traffic_factor = _get_traffic_factor(costIn.traffic_conditions)]
    /\ costPc' = "done"
    /\ UNCHANGED <<costIn, routeVars, cvrpVars, feedVars, partVars, apiVars,
                   splitVars, predictVars, wsVars>>

GetWeatherFactor ==
    /\ costPc = "call"
    /\ costIn.call = "weather"
    /\ costOut' = [NoFactors EXCEPT !.weather_factor = _get_weather_factor(costIn.weather_conditions)]
    /\ costPc' = "done"
    /\ UNCHANGED <<costIn, routeVars, cvrpVars, feedVars, partVars, apiVars,
                   splitVars, predictVars, wsVars>>

ScoreLeg ==
    /\ costPc = "call"
    /\ costIn.call = "leg"
    /\ costOut' = LegFactors(preprocess(costIn, NoTraffic, costIn.refresh_due))
    /\ costPc' = "done"
    /\ UNCHANGED <<costIn, routeVars, cvrpVars, feedVars, partVars, apiVars,
                   splitVars, predictVars, wsVars>>

CostNext == GetTrafficFactor \/ GetWeatherFactor \/ ScoreLeg

SpecCost == CostInit /\ [][CostNext]_vars

\* C8: the traffic factor and the weather factor are at least 1.0 whatever
\* the density, incidents, condition, precipitation, wind speed, visibility
\* and temperature are (missing, zero and negative values included).
C8_FactorsAtLeastOne ==
    costPc = "done" => costOut.traffic_factor >= One /\ costOut.weather_factor >= One

\* A negative density with a nearby incident, floored to 1.0.
C8_Witness ==
    /\ costPc = "done"
    /\ costIn.call = "traffic"
    /\ costIn.traffic_conditions.density = -100
    /\ costIn.traffic_conditions.incidents # <<>>
    /\ costOut.traffic_factor = One

\* The tier value of each reading, in tenths; 10 (that is 1.0) when no tier
\* applies.  Visibility is in hundredths of a km.
PrecipitationTier(p) == IF p > 10 THEN 17 ELSE IF p > 5 THEN 15 ELSE IF p > 2 THEN 12 ELSE 10
WindTier(w) == IF w > 50 THEN 20 ELSE IF w > 30 THEN 15 ELSE IF w > 20 THEN 12 ELSE 10
VisibilityTier(v) == IF v < 10 THEN 20 ELSE IF v < 50 THEN 17 ELSE IF v < 100 THEN 13 ELSE 10
TemperatureTier(t) == IF t > 35 \/ t < -5 THEN 13 ELSE 10

\* The largest element of a non-empty set of numbers.
MaxOf(S) == CHOOSE x \in S : \A y \in S : y <= x

\* C23: the weather factor is the maximum of 1.0, the condition-table value
\* and the tier values of precipitation, wind speed, visibility and
\* temperature: no reading lowers it and the readings do not compound.
C23_WeatherFactorIsWorstSubFactor ==
    (costPc = "done" /\ costIn.call = "weather") =>
        LET wc == costIn.weather_conditions
        IN  costOut.weather_factor =
                Tenths(MaxOf({10,
                              ConditionTenths(Lower(GetStr(wc.condition, "clear"))),
                              PrecipitationTier(Get(wc.precipitation, 0)),
                              WindTier(Get(wc.wind_speed, 0)),
                              VisibilityTier(Get(wc.visibility, 1000)),
                              TemperatureTier(Get(wc.temperature, 20))}))

\* C23 witness: fog (1.5), heavy rain by intensity (1.7) and a storm wind
\* (2.0) together give 2.0, the worst of them.
C23_Witness ==
    /\ costPc = "done"
    /\ costIn.call = "weather"
    /\ costIn.weather_conditions.condition = "fog"
    /\ costIn.weather_conditions.precipitation = 11
    /\ costIn.weather_conditions.wind_speed = 60
    /\ costOut.weather_factor = Tenths(20)

\* C9: a request that supplies neither traffic data nor weather data has its
\* legs scored with traffic_factor 1.0 and weather_factor 1.0.
C9_DefaultsAddNoDelay ==
    (/\ costPc = "done"
     /\ costIn.call = "leg"
     /\ costIn.traffic_conditions = NoTraffic
     /\ costIn.weather_conditions = NoWeather)
        => costOut.traffic_factor = One /\ costOut.weather_factor = One

(***************************************************************************)
(* SpecFeed: the camera feed manager with its capture and worker threads,  *)
(* driven by the agent's add_camera_feed and remove_camera_feed.           *)
(***************************************************************************)
FeedInit ==
    /\ PartIdle
    /\ ApiIdle
    /\ SplitIdle
    /\ PredictIdle
    /\ WsIdle
    /\ FeedConstructed
    /\ tracker \in BOOLEAN
    /\ RouteIdle
    /\ CvrpIdle
    /\ CostIdle

FeedNext ==
    \/ \E c \in Cameras : AddCameraFeed(c)
    \/ \E c \in Cameras : RemoveCameraFeed(c)
    \/ Stop
    \/ \E t \in 1..MaxCaptures : CaptureOpen(t)
    \/ \E t \in 1..MaxCaptures : CaptureStopped(t)
    \/ \E t \in 1..MaxCaptures : CapturePut(t)
    \/ \E t \in 1..MaxCaptures : CaptureDropOldest(t)
    \/ \E t \in 1..MaxCaptures : CapturePutAgain(t)
    \/ \E w \in 1..NumWorkers : WorkerDequeue(w)
    \/ \E w \in 1..NumWorkers : WorkerEnterCallback(w)
    \/ \E w \in 1..NumWorkers : WorkerAnalyze(w)
    \/ \E w \in 1..NumWorkers : WorkerUpdate(w)
    \/ \E w \in 1..NumWorkers : WorkerStopped(w)

SpecFeed == FeedInit /\ [][FeedNext]_vars

\* The feed with the agent's tracker loaded and a detector that reports a
\* congested count.  No thread's control flow reads the detection result:
\* WorkerUpdate stores it and returns to polling whatever it is.
FairDetectResults == {12}

FeedFairInit ==
    /\ PartIdle
    /\ ApiIdle
    /\ SplitIdle
    /\ PredictIdle
    /\ WsIdle
    /\ FeedConstructed
    /\ tracker = TRUE
    /\ RouteIdle
    /\ CvrpIdle
    /\ CostIdle

FeedFairNext ==
    \/ \E c \in Cameras : AddCameraFeed(c)
    \/ \E c \in Cameras : RemoveCameraFeed(c)
    \/ Stop
    \/ \E t \in 1..MaxCaptures : CaptureOpen(t)
    \/ \E t \in 1..MaxCaptures : CaptureStopped(t)
    \/ \E t \in 1..MaxCaptures : CapturePut(t)
    \/ \E t \in 1..MaxCaptures : CaptureDropOldest(t)
    \/ \E t \in 1..MaxCaptures : CapturePutAgain(t)
    \/ \E w \in 1..NumWorkers : WorkerDequeue(w)
    \/ \E w \in 1..NumWorkers : WorkerEnterCallback(w)
    \/ \E w \in 1..NumWorkers : WorkerAnalyzeOf(w, FairDetectResults)
    \/ \E w \in 1..NumWorkers : WorkerUpdate(w)
    \/ \E w \in 1..NumWorkers : WorkerStopped(w)

\* Lines 37-45: the worker threads are started daemon threads; the
\* scheduler runs every worker that can make a step.
WorkerFairness ==
    \A w \in 1..NumWorkers :
        /\ WF_vars(WorkerDequeue(w))
        /\ WF_vars(WorkerEnterCallback(w))
        /\ WF_vars(WorkerAnalyzeOf(w, FairDetectResults))
        /\ WF_vars(WorkerUpdate(w))
        /\ WF_vars(WorkerStopped(w))

\* Lines 65-70: the capture threads are started daemon threads; the
\* scheduler runs every capture thread that can make a step, and whether
\* the camera delivers another frame (CapturePut) is left open.
CaptureFairness ==
    \A t \in 1..MaxCaptures :
        /\ WF_vars(CaptureOpen(t))
        /\ WF_vars(CaptureStopped(t))
        /\ WF_vars(CaptureDropOldest(t))
        /\ WF_vars(CapturePutAgain(t))

\* The feed with fair worker threads.
SpecFeedWorkersFair == FeedFairInit /\ [][FeedFairNext]_vars /\ WorkerFairness

\* The feed with fair worker and capture threads.
SpecFeedFair == FeedFairInit /\ [][FeedFairNext]_vars /\ WorkerFairness /\ CaptureFairness

\* C4: with one producer and the worker pool, a producer that finds the
\* queue full puts the frame it holds after discarding the oldest one: the
\* newest frame is never the one dropped.
C4_NewestFrameRetained ==
    started = 1 => ~capture[1].dropped_new

\* C10: once remove_camera_feed has returned, the capture thread of that
\* registration puts no further frame into any queue, a later queue of the
\* same id included: every queued frame comes from the capture thread the
\* camera is registered with.
C10_RemovedProducerIsSilent ==
    \A c \in Cameras : \A i \in 1..Len(camera_queues[c]) :
        camera_queues[c][i].thread = camera_threads[c]

\* The workers that hold a dequeued frame: inside the callback of lines
\* 151-153, from the dequeue to the write of the entry.
Processing(w) == worker[w].pc \in {"callback", "analyze", "write"}

\* The step in which worker w writes what the analysis of its frame gave.
Writes(w) == worker[w].pc = "write" /\ worker'[w].pc = "poll"

\* C11: when the detection collaborator fails on a frame (it raises, or it
\* returns no detection), the entry of the frame's camera keeps the
\* traffic conditions it had: the write of a failed analysis changes nothing.
C11_FailedDetectionKeepsState ==
    [][\A w \in 1..NumWorkers :
          LET c == worker[w].frame.camera_id
          IN  (Writes(w) /\ worker[w].detected \in {Missing, 0})
                  => camera_data'[c].traffic_conditions = camera_data[c].traffic_conditions]_vars

\* C12: at any instant at most one worker of the pool holds a frame of a
\* given camera: two workers that are processing process different cameras.
C12_SingleWriterPerKey ==
    \A w1, w2 \in 1..NumWorkers :
        (w1 # w2 /\ Processing(w1) /\ Processing(w2))
            => worker[w1].frame.camera_id # worker[w2].frame.camera_id

\* C13: add_camera_feed for an id that is registered already is answered
\* with SourceAlreadyExists and changes neither the manager's queues,
\* threads and callbacks nor the agent's registries.
C13_DuplicateRejected ==
    [][\A c \in Cameras :
          (c \in active_cameras /\ reply' # reply
             /\ reply'.op = "add_camera_feed" /\ reply'.camera_id = c)
              => /\ reply'.outcome = "SourceAlreadyExists"
                 /\ UNCHANGED <<managerVars, threadVars, active_cameras, camera_data>>]_vars

\* C14: after a frame with n detected vehicles is processed for a camera
\* that has an entry, the entry holds vehicle_count = n, density =
\* min(1, n/50) within [0, 1], and is_congested = (n > 10).
C14_EntryReflectsCount ==
    [][\A w \in 1..NumWorkers :
          LET c == worker[w].frame.camera_id
              n == worker[w].detected
              e == camera_data'[c].traffic_conditions
          IN  (Writes(w) /\ n # Missing /\ camera_data[c].present)
                  => /\ ~e.empty
                     /\ e.vehicle_count = n
                     /\ e.density = Min2(One, (n * One) \div 50)
                     /\ e.density >= 0 /\ e.density <= One
                     /\ e.is_congested = (n > 10)]_vars

\* C18: in every reachable state the queue of a camera holds between 0 and
\* max_queue_size frames.
C18_QueueWithinCapacity ==
    \A c \in Cameras : Len(camera_queues[c]) \in 0..QueueSize

\* C18 witness: a capture thread found the queue of its camera full.
C18_Witness ==
    \E t \in 1..MaxCaptures :
        /\ capture[t].pc = "full"
        /\ capture[t].camera_id \in queued
        /\ Len(camera_queues[capture[t].camera_id]) = QueueSize

\* C19: the entry of a camera is written only by the processing of frames
\* captured under the registration that created the entry: processing that
\* was in flight at remove_camera_feed, or frames of an earlier
\* registration, never write the entry of a later registration.
C19_NoStaleWrite ==
    \A c \in Cameras :
        camera_data[c].present
            => camera_data[c].written_by \in {0, camera_data[c].registration}

Frames == [camera_id : Cameras, thread : 1..MaxCaptures, seq : 1..MaxFrames]

\* Frame f waits in the queue of its camera.
InQueue(f) ==
    \E i \in 1..Len(camera_queues[f.camera_id]) : camera_queues[f.camera_id][i] = f

\* A worker holds frame f and is about to run the camera's callback on it.
Handed(f) == \E w \in 1..NumWorkers : worker[w].pc = "callback" /\ worker[w].frame = f

\* A capture thread's drop-oldest get_nowait took a frame in this step.
DropOldestStep ==
    \E t \in 1..MaxCaptures : capture[t].pc = "full" /\ capture'[t].pc = "put"

\* A frame leaves its queue, while the camera stays registered, only by a
\* worker that hands it to the camera's callback or by drop-oldest.
LeavesByWorkerOrEviction ==
    \A f \in Frames :
        (InQueue(f) /\ ~InQueue(f)' /\ f.camera_id \in queued')
            => (Handed(f)' \/ DropOldestStep)

AllThreadsExited ==
    /\ \A t \in 1..MaxCaptures : capture[t].pc \in {"none", "exited"}
    /\ \A w \in 1..NumWorkers : worker[w].pc = "exited"

\* No camera is registered with the manager.
NothingRegistered ==
    /\ queued = {}
    /\ callbacks = {}
    /\ \A c \in Cameras : camera_threads[c] = 0

\* C27: when stop() returns no camera remains registered (camera_queues,
\* camera_threads and callbacks are empty), and after stop() every capture
\* thread and every worker thread eventually leaves its loop.
C27_StopTerminatesThreads ==
    /\ [][(~stop_event /\ stop_event') => NothingRegistered']_vars
    /\ (stop_event ~> AllThreadsExited)

\* C27 witness: stop() was called on a manager the agent had a camera
\* registered with, a capture thread that had produced frames has left its
\* loop, and so has every other thread.
C27_Witness ==
    /\ stop_event
    /\ AllThreadsExited
    /\ \E t \in 1..MaxCaptures : capture[t].pc = "exited" /\ capture[t].seq > 0
    /\ NothingRegistered
    /\ active_cameras # {}

(***************************************************************************)
(* SpecCluster: every stop count, fleet size and max_stops_per_vehicle     *)
(* within the bounds, then _cluster_stops and the pairing with vehicles.   *)
(***************************************************************************)
PartInit ==
    /\ RouteIdle
    /\ CvrpIdle
    /\ CostIdle
    /\ FeedIdle
    /\ ApiIdle
    /\ SplitIdle
    /\ PredictIdle
    /\ WsIdle
    /\ partPc = "call"
    /\ partRes = NoPartition
    /\ \E n \in 0..MaxPartStops, nv \in 1..MaxPartVehicles, mx \in 1..MaxPartPerCluster :
          partReq = [stops |-> MakeStops([i \in 1..n |-> 1]), num_vehicles |-> nv,
                     max_stops_per_vehicle |-> mx]

ClusterStops ==
    /\ partPc = "call"
    /\ LET clusters == _cluster_stops(partReq.stops, partReq.num_vehicles,
                                      partReq.max_stops_per_vehicle)
       IN  partRes' = [clusters |-> clusters,
                       paired |-> ZipPairs(partReq.num_vehicles, clusters)]
    /\ partPc' = "done"
    /\ UNCHANGED <<partReq, routeVars, cvrpVars, costVars, feedVars, apiVars,
                   splitVars, predictVars, wsVars>>

PartNext == ClusterStops

SpecCluster == PartInit /\ [][PartNext]_vars

\* The loop of line 58 gets to vehicle k: the sequencing of every earlier
\* vehicle's cluster returned.
Sequenced(k) ==
    \A j \in 1..(k - 1) : _solve_tsp(RouteStops(partRes.paired[j])).raised = ""

\* C20: the cluster sequenced for the vehicle at position k (from 0) holds
\* only stops whose input index i has i % num_vehicles = k, in increasing
\* input order.
C20_ClusterIsRoundRobinShare ==
    partPc = "done" =>
        \A k \in 1..Len(partRes.paired) :
            Sequenced(k) =>
                LET cluster == partRes.paired[k]
                IN  /\ \A j \in 1..Len(cluster) :
                           (cluster[j].id - 1) % partReq.num_vehicles = k - 1
                    /\ \A j \in 1..(Len(cluster) - 1) : cluster[j].id < cluster[j + 1].id

\* The partitioner cut at least one round-robin cluster into pieces.
WasSplit == partPc = "done" /\ Len(partRes.clusters) > partReq.num_vehicles

\* C22: every cluster the partitioner returns holds at most
\* max_stops_per_vehicle stops.
C22_ClustersWithinMax ==
    partPc = "done" =>
        \A k \in 1..Len(partRes.clusters) :
            Len(partRes.clusters[k]) <= partReq.max_stops_per_vehicle

\* C22 witness: a round-robin cluster was longer than max_stops_per_vehicle
\* and was cut, one piece holding exactly max_stops_per_vehicle stops.
C22_Witness ==
    /\ WasSplit
    /\ partReq.max_stops_per_vehicle > 1
    /\ \E k \in 1..Len(partRes.clusters) :
          Len(partRes.clusters[k]) = partReq.max_stops_per_vehicle

\* C26: the partitioner conserves the stops: every returned cluster is
\* non-empty, and each input stop is in exactly one cluster, exactly once,
\* with nothing else in any cluster.
C26_StopsConserved ==
    partPc = "done" =>
        LET all == Concat(partRes.clusters)
        IN  /\ \A k \in 1..Len(partRes.clusters) : partRes.clusters[k] # <<>>
            /\ Len(all) = Len(partReq.stops)
            /\ \A i \in 1..Len(partReq.stops) :
                   Cardinality({j \in 1..Len(all) : all[j] = partReq.stops[i]}) = 1

\* C26 witness: several vehicles, more stops than one vehicle may take, and
\* a remainder piece shorter than max_stops_per_vehicle.
C26_Witness ==
    /\ WasSplit
    /\ partReq.num_vehicles > 1
    /\ \E k \in 1..Len(partRes.clusters) :
          Len(partRes.clusters[k]) < partReq.max_stops_per_vehicle

(***************************************************************************)
(* SpecApi: every POST /optimize-routes request within the bounds, then    *)
(* the handler.                                                            *)
(***************************************************************************)
Latitudes == {Missing, -91, 0, 45, 91}
Longitudes == {Missing, 0, 77, 181}
Points == [lat : Latitudes, lng : Longitudes]
Depots == {NoDepot} \cup
          {[given |-> TRUE, lat |-> p.lat, lng |-> p.lng] :
              p \in {q \in Points : q.lat # Missing \/ q.lng # Missing}}
ApiStopLists == UNION {[1..n -> Points] : n \in 0..MaxApiStops}

ApiInit ==
    /\ RouteIdle
    /\ CvrpIdle
    /\ CostIdle
    /\ FeedIdle
    /\ PartIdle
    /\ SplitIdle
    /\ PredictIdle
    /\ WsIdle
    /\ apiPc = "call"
    /\ apiRes = NoHttpResponse
    /\ \E nv \in {Missing, 0, 1}, stops \in ApiStopLists, depot \in Depots, ok \in BOOLEAN :
          apiReq = [vehicles |-> nv, stops |-> stops, depot |-> depot, init_ok |-> ok]

ApiOptimizeRoutes ==
    /\ apiPc = "call"
    /\ apiRes' = api_optimize_routes(apiReq, apiReq.init_ok)
    /\ apiPc' = "done"
    /\ UNCHANGED <<apiReq, routeVars, cvrpVars, costVars, feedVars, partVars,
                   splitVars, predictVars, wsVars>>

ApiNext == ApiOptimizeRoutes

SpecApi == ApiInit /\ [][ApiNext]_vars

\* GeoPoint: lat in [-90, 90] and lng in [-180, 180].
InRange(p) == p.lat >= -90 /\ p.lat <= 90 /\ p.lng >= -180 /\ p.lng <= 180

\* The request gives every field and every coordinate as a number.
Complete(req) ==
    /\ req.vehicles # Missing /\ req.vehicles > 0
    /\ req.stops # <<>>
    /\ req.depot.given /\ req.depot.lat # Missing /\ req.depot.lng # Missing
    /\ \A i \in 1..Len(req.stops) : req.stops[i].lat # Missing /\ req.stops[i].lng # Missing

\* The handler's two answers for a bad coordinate (lines 264 and 267).
InvalidCoordinate(res) ==
    /\ res.status_code = 400
    /\ res.detail \in {"Invalid coordinates in stops", "Invalid depot coordinates"}

\* C16: a request is rejected with InvalidCoordinate exactly when its depot
\* or one of its stops is out of range: an out-of-range coordinate is always
\* rejected and an in-range one, lat = 0 or lng = 0 included, never is.
C16_InvalidCoordinateExactly ==
    (apiPc = "done" /\ Complete(apiReq) /\ apiReq.init_ok)
        => (InvalidCoordinate(apiRes)
               <=> (\/ ~InRange(apiReq.depot)
                    \/ \E i \in 1..Len(apiReq.stops) : ~InRange(apiReq.stops[i])))

(***************************************************************************)
(* SpecSplit: _cluster_stops step by step on every stop count, fleet size  *)
(* and max_per_cluster within the bounds, zero and negative ones included. *)
(* The function is sequential code: a step that can be taken is taken.     *)
(***************************************************************************)
SplitInit ==
    /\ RouteIdle
    /\ CvrpIdle
    /\ CostIdle
    /\ FeedIdle
    /\ PartIdle
    /\ ApiIdle
    /\ PredictIdle
    /\ WsIdle
    /\ \E n \in 0..MaxSplitStops, nv \in 0..MaxSplitVehicles,
          mx \in (0 - MaxSplitPerCluster)..MaxSplitPerCluster :
          split = SplitCall([i \in 1..n |-> i], nv, mx)

SplitNext == SplitRoundRobin \/ SplitNextCluster \/ SplitPiece \/ SplitRest

SpecSplit == SplitInit /\ [][SplitNext]_vars /\ WF_vars(SplitNext)

\* C25: the partitioner terminates (returns or raises) for every stop list,
\* vehicle count and integer max_stops_per_vehicle, zero and negative
\* included.
C25_PartitionerTerminates == <>(split.pc \in {"returned", "raised"})

(***************************************************************************)
(* SpecPredict: every request of predict within the bounds, then predict.  *)
(***************************************************************************)
WaypointLists == UNION {[1..n -> Positions] : n \in 0..MaxWaypoints}

PredictInit ==
    /\ RouteIdle
    /\ CvrpIdle
    /\ CostIdle
    /\ FeedIdle
    /\ PartIdle
    /\ ApiIdle
    /\ SplitIdle
    /\ WsIdle
    /\ predictPc = "call"
    /\ predictRes = NoPrediction
    /\ \E origin \in Positions, waypoints \in WaypointLists, destination \in Positions :
          predictReq = PredictData(origin, waypoints, destination)

Predict ==
    /\ predictPc = "call"
    /\ predictRes' = predict(predictReq)
    /\ predictPc' = "done"
    /\ UNCHANGED <<predictReq, routeVars, cvrpVars, costVars, feedVars, partVars, apiVars,
                   splitVars, wsVars>>

PredictNext == Predict

SpecPredict == PredictInit /\ [][PredictNext]_vars

\* How often point x occurs in a list of points.
CountOf(list, x) == Cardinality({i \in 1..Len(list) : list[i] = x})

\* C29: for a request with at least one waypoint, the route that predict
\* returns starts at the origin and ends at the destination, and
\* waypoint_order holds the supplied waypoints, each as often as supplied.
C29_RouteFromOriginToDestination ==
    (predictPc = "done" /\ Len(predictReq.waypoints) >= 1) =>
        /\ predictRes.route[1] = predictReq.origin
        /\ predictRes.route[Len(predictRes.route)] = predictReq.destination
        /\ \A x \in Positions :
              CountOf(predictRes.waypoint_order, x) = CountOf(predictReq.waypoints, x)

(***************************************************************************)
(* SpecWs: the connection manager driven by endpoints (connect, subscribe  *)
(* and unsubscribe messages, disconnect) and by sends that fail.           *)
(***************************************************************************)
WsInit ==
    /\ RouteIdle
    /\ CvrpIdle
    /\ CostIdle
    /\ FeedIdle
    /\ PartIdle
    /\ ApiIdle
    /\ SplitIdle
    /\ PredictIdle
    /\ WsIdle

WsManager == Manager(active_connections, subscriptions, connection_topics)

WsBecomes(m) ==
    /\ active_connections' = m.active_connections
    /\ subscriptions' = m.subscriptions
    /\ connection_topics' = m.connection_topics

\* Lines 68-69: a client opens the endpoint, which connects it.
WsConnect(c) ==
    /\ endpoint[c] = "closed"
    /\ WsBecomes(connect(WsManager, c))
    /\ endpoint' = [endpoint EXCEPT ![c] = "open"]
    /\ UNCHANGED <<routeVars, cvrpVars, costVars, feedVars, partVars, apiVars,
                   splitVars, predictVars>>

\* Lines 73-77 and 84-85: a subscribe message; an exception of subscribe
\* is logged and the loop goes on.
WsSubscribe(c, t) ==
    /\ endpoint[c] = "open"
    /\ WsBecomes(subscribe(WsManager, c, t))
    /\ UNCHANGED <<endpoint, routeVars, cvrpVars, costVars, feedVars, partVars, apiVars,
                   splitVars, predictVars>>

\* Lines 78-79: an unsubscribe message.
WsUnsubscribe(c, t) ==
    /\ endpoint[c] = "open"
    /\ WsBecomes(unsubscribe(WsManager, c, t))
    /\ UNCHANGED <<endpoint, routeVars, cvrpVars, costVars, feedVars, partVars, apiVars,
                   splitVars, predictVars>>

\* Lines 82-83 and 86-87: receive_text raises WebSocketDisconnect; the
\* endpoint disconnects the client and ends.
WsDisconnect(c) ==
    /\ endpoint[c] = "open"
    /\ WsBecomes(disconnect(WsManager, c))
    /\ endpoint' = [endpoint EXCEPT ![c] = "closed"]
    /\ UNCHANGED <<routeVars, cvrpVars, costVars, feedVars, partVars, apiVars,
                   splitVars, predictVars>>

\* Lines 49-55: send_text to an active connection raises; the sender
\* disconnects the client, whose endpoint is not told.
WsSendFails(c) ==
    /\ c \in active_connections
    /\ WsBecomes(disconnect(WsManager, c))
    /\ UNCHANGED <<endpoint, routeVars, cvrpVars, costVars, feedVars, partVars, apiVars,
                   splitVars, predictVars>>

WsNext ==
    \/ \E c \in Clients : WsConnect(c)
    \/ \E c \in Clients, t \in Topics : WsSubscribe(c, t)
    \/ \E c \in Clients, t \in Topics : WsUnsubscribe(c, t)
    \/ \E c \in Clients : WsDisconnect(c)
    \/ \E c \in Clients : WsSendFails(c)

SpecWs == WsInit /\ [][WsNext]_vars

\* C30: client c is listed in subscriptions[t] iff t is listed in
\* connection_topics[c], and every client listed in a subscription is an
\* active connection.
C30_SubscriptionsConsistent ==
    \A c \in Clients, t \in Topics :
        /\ InList(subscriptions[t], c) <=>
               (connection_topics[c].present /\ InList(connection_topics[c].topics, t))
        /\ InList(subscriptions[t], c) => c \in active_connections

(***************************************************************************)
(* Claims about RouteOptimizer (SpecRoute).                                *)
(***************************************************************************)
\* Lines 89-98: the returned dictionary has the keys 'routes' and 'summary'
\* only; no stop is ever reported as unassigned.
UnassignedStops(res) == {}

\* How often the stop with input index id occurs in the returned routes.
Occurrences(res, id) ==
    Cardinality({rk \in {<<r, k>> : r \in 1..Len(res.routes), k \in 1..MaxStops + 2} :
                    /\ rk[2] <= Len(res.routes[rk[1]].stops)
                    /\ res.routes[rk[1]].stops[rk[2]].id = id})

\* C1: in every returned solution each input stop is in exactly one route's
\* stops or in unassigned_stops, never in both and never in neither.
C1_EveryStopExactlyOnce ==
    routeRes.status = "ok" =>
        \A i \in 1..Len(routeReq.stops) :
            Occurrences(routeRes, i) + (IF i \in UnassignedStops(routeRes) THEN 1 ELSE 0) = 1

\* Length of the closed tour depot -> order -> depot.
RECURSIVE PathLen(_)
PathLen(route) ==
    IF Len(route) <= 1 THEN 0
    ELSE _calculate_distance(route[1], route[2]) + PathLen(Tail(route))

TourLen(order) == PathLen(<<Depot>> \o order \o <<Depot>>)

\* The permutations of the sequence s, as sequences, in enumeration order
\* irrelevant (a set).
Perms(s) ==
    {[i \in 1..Len(s) |-> s[f[i]]] :
        f \in {g \in [1..Len(s) -> 1..Len(s)] : \A a, b \in 1..Len(s) : a # b => g[a] # g[b]}}

Ids(route) == [i \in 1..Len(route) |-> route[i].id]

\* a comes no later than b in lexicographic order (sequences of equal length).
RECURSIVE LexLeq(_, _)
LexLeq(a, b) ==
    \/ a = <<>>
    \/ Head(a) < Head(b)
    \/ Head(a) = Head(b) /\ LexLeq(Tail(a), Tail(b))

\* C5: a cluster of at most 8 stops is sequenced into an ordering of minimal
\* closed tour length, the first minimal one in enumeration order.
C5_BruteForceMinimal ==
    routePc = "done" =>
        \A c \in 1..ZipLen(routeReq.num_vehicles, routeRes.clusters) :
            Len(routeRes.clusters[c]) <= BruteForceLimit =>
                /\ routeRes.status = "ok"
                /\ \A p \in Perms(routeRes.clusters[c]) :
                       /\ TourLen(routeRes.routes[c].stops) <= TourLen(p)
                       /\ TourLen(p) = TourLen(routeRes.routes[c].stops)
                              => LexLeq(Ids(routeRes.routes[c].stops), Ids(p))

\* C6: a cluster of more than 8 stops is sequenced into a permutation of
\* exactly its stops, each next stop the unvisited one nearest to the
\* current position, the lowest input index among equally near ones.
C6_NearestNeighbourPermutation ==
    routeRes.status = "ok" =>
        \A c \in 1..Len(routeRes.routes) :
            LET r == routeRes.routes[c]
                pos(k) == IF k = 0 THEN Depot ELSE r.stops[k]
            IN  Len(r.assigned) > BruteForceLimit =>
                    /\ Len(r.stops) = Len(r.assigned)
                    /\ \A s \in 1..Len(r.assigned) :
                           Cardinality({k \in 1..Len(r.stops) : r.stops[k] = r.assigned[s]}) = 1
                    /\ \A k \in 1..Len(r.stops) : \A m \in k..Len(r.stops) :
                           \/ _calculate_distance(pos(k - 1), r.stops[k])
                                  < _calculate_distance(pos(k - 1), r.stops[m])
                           \/ /\ _calculate_distance(pos(k - 1), r.stops[k])
                                     = _calculate_distance(pos(k - 1), r.stops[m])
                              /\ r.stops[k].id <= r.stops[m].id

\* C7: every returned route starts and ends at the depot, and its metrics
\* run over one leg more than it has assigned stops, the first leaving the
\* depot and the last arriving there.
C7_DepotToDepot ==
    routeRes.status = "ok" =>
        \A c \in 1..Len(routeRes.routes) :
            LET r == routeRes.routes[c]
            IN  /\ Len(r.legs) = Len(r.assigned) + 1
                /\ r.legs[1].origin = Depot
                /\ r.legs[Len(r.legs)].dest = Depot

\* C15: a call whose vehicles or stops are empty is rejected with
\* MissingRequiredField; it does not return a solution and raises no
\* arithmetic or index error.
C15_MissingFieldRejected ==
    (routePc = "done" /\ (routeReq.num_vehicles = 0 \/ routeReq.stops = <<>>))
        => (routeRes.status = "rejected" /\ routeRes.error = "MissingRequiredField")

\* Lines 89-98: the response holds 'routes' and 'summary' only; no entry of
\* it names a cluster that needs an additional vehicle.
AdditionalVehicleReports(res) == {}

\* C17: when the partitioner makes more clusters than there are vehicles,
\* every cluster beyond the vehicle count is reported in the response as
\* requiring an additional vehicle.
C17_OverflowClustersReported ==
    routeRes.status = "ok" =>
        \A k \in 1..Len(routeRes.clusters) :
            k > routeReq.num_vehicles => k \in AdditionalVehicleReports(routeRes)

\* C21: the route of a vehicle is sequenced by brute force exactly when the
\* vehicle has at most 8 stops assigned (the depot not counted), and by the
\* nearest-neighbour heuristic exactly when it has more than 8.
C21_BruteForceUpToEightStops ==
    routeRes.status = "ok" =>
        \A r \in 1..Len(routeRes.routes) :
            LET assigned == routeRes.routes[r].assigned
            IN  (SolverFor(RouteStops(assigned)) = "_brute_force_tsp")
                    <=> (Len(assigned) <= 8)

====
